---------------------------- MODULE Spec2Model ----------------------------
(***************************************************************************)
(* Slot generation and booking integrity of the faculty slot booking app.  *)
(*                                                                         *)
(* The store is the Postgres schema of supabase/migrations: the tables     *)
(* availability, faculty_slots, appointments and slot_requests, their      *)
(* unique constraints, the row-level policies and the trigger              *)
(* generate_slots_from_availability.  The clients are the React handlers   *)
(* handleAddAvailability and BookingPage.fetchSlot / handleBooking; every  *)
(* awaited store request of a handler is one atomic step, so that calls    *)
(* of different browsers interleave between requests.                      *)
(***************************************************************************)
EXTENDS Integers, Sequences, FiniteSets, TLC

VARIABLES
  availability,    \* rows of public.availability
  faculty_slots,   \* rows of public.faculty_slots
  appointments,    \* rows of public.appointments
  slot_requests,   \* rows of public.slot_requests (the call that wrote each)
  calls,           \* one BookingPage instance per call id
  nextAvailId,     \* stands for gen_random_uuid() of availability.id
  nextSlotId,      \* stands for gen_random_uuid() of faculty_slots.id
  submitted,       \* history: how often each window's insert committed
  lastOp,          \* history: the last availability operation and its result
  gen,             \* input and output of one run of the slot generator
  txs,             \* the INSERT INTO availability statements in progress
  now,             \* the clock: hours since 00:00 UTC of day 0
  listing          \* the dashboard that is loading or showing available slots

vars == <<availability, faculty_slots, appointments, slot_requests, calls,
          nextAvailId, nextSlotId, submitted, lastOp, gen, txs,
          now, listing>>

\* What the dashboards and the booking page never write.
sideVars == <<gen, txs, now, listing>>

storeVars == <<availability, faculty_slots, appointments, slot_requests,
               nextAvailId, nextSlotId, submitted, lastOp>>

-----------------------------------------------------------------------------
(* Bounds                                                                  *)

MaxCalls == 2      \* booking pages open at the same time
MaxAvail == 2      \* availability rows ever committed
MaxCancel == 1     \* out-of-band cancellations
MaxTx == 2         \* availability inserts in progress or ended
MaxTicks == 2      \* half days that pass

-----------------------------------------------------------------------------
(* SQL values                                                              *)

\* A nullable column holds <<>> (NULL) or <<v>>.
NULL == <<>>
NotNull(v) == <<v>>
IsNull(x) == x = <<>>

\* Minutes in the range of the TIME type (00:00 .. 24:00).
MinutesPerDay == 24 * 60

\* time + interval on the TIME type: the sum is taken modulo 24 hours.
time_pl_interval(t, minutes) ==
  (((t + minutes) % MinutesPerDay) + MinutesPerDay) % MinutesPerDay

\* COALESCE(x, d)
COALESCE(x, d) == IF IsNull(x) THEN d ELSE x[1]

-----------------------------------------------------------------------------
(* Users and roles                                                         *)

Users == {"adm1", "fac1", "fac2", "sch1"}

user_roles ==
  [u \in Users |-> IF u = "adm1" THEN "admin"
                   ELSE IF u = "sch1" THEN "scholar" ELSE "faculty"]

has_role(u, r) == user_roles[u] = r

\* Routes /admin and /faculty carry the availability form.
CanOpenAvailabilityForm(u) == user_roles[u] \in {"admin", "faculty"}

\* Route /book/:slotId is rendered for the role faculty only.
CanOpenBookingPage(u) == user_roles[u] \in {"faculty"}


-----------------------------------------------------------------------------
(* Row-level policies                                                      *)

\* "Admins can manage availability" / "Faculty can manage their
\* availability": FOR ALL, so the USING expression is also the INSERT check.
availability_insert_allowed(u, faculty_id) ==
  has_role(u, "admin") \/ u = faculty_id

\* "Admins can manage all slots" / "Faculty can manage their own slots":
\* the only policies on faculty_slots that cover INSERT and UPDATE.
faculty_slots_write_allowed(u, faculty_id) ==
  has_role(u, "admin") \/ u = faculty_id

\* "Scholars can create appointments": WITH CHECK (auth.uid() = scholar_id).
appointments_insert_allowed(u, scholar_id) == u = scholar_id

-----------------------------------------------------------------------------
(* Unique constraints                                                      *)

\* UNIQUE (faculty_id, date, start_time) on availability.
availability_unique_violation(rows, faculty_id, date, start_time) ==
  \E a \in rows :
    a.faculty_id = faculty_id /\ a.date = date /\ a.start_time = start_time

\* A key that would also hold the back-reference (not the schema's).
C9_Mutant_SlotKey(s) ==
  <<s.faculty_id, s.date, s.start_time, s.end_time, s.availability_id>>

\* The columns of faculty_slots_faculty_id_date_start_time_end_time_key.
SlotKey(s) == <<s.faculty_id, s.date, s.start_time, s.end_time>>

\* A faculty_slots table without the constraint (not the schema's).
C7_Mutant_NoUniqueSlot(rows, row) == FALSE

\* UNIQUE (faculty_id, date, start_time, end_time) on faculty_slots.
faculty_slots_unique_violation(rows, row) ==
  \E s \in rows : SlotKey(s) = SlotKey(row)

\* An index on (slot_id, scholar_id) instead (not the schema's).
C1_Mutant_IndexPerScholar(rows, row) ==
  /\ ~IsNull(row.slot_id)
  /\ \E a \in rows : /\ ~IsNull(a.slot_id)
                     /\ a.slot_id = row.slot_id
                     /\ a.scholar_id = row.scholar_id

\* An index that would cover the confirmed appointments only (not the
\* schema's).
C22_Mutant_IndexOnConfirmed(rows, row) ==
  /\ ~IsNull(row.slot_id)
  /\ \E a \in rows : /\ ~IsNull(a.slot_id)
                     /\ a.slot_id = row.slot_id
                     /\ a.status = "confirmed"

\* An appointments table without the index (not the schema's).
C2_Mutant_NoUniqueIndex(rows, row) == FALSE

\* CREATE UNIQUE INDEX appointments_slot_id_unique_not_null
\*   ON appointments (slot_id) WHERE slot_id IS NOT NULL.
appointments_slot_id_unique_violation(rows, row) ==
  /\ ~IsNull(row.slot_id)
  /\ \E a \in rows : ~IsNull(a.slot_id) /\ a.slot_id = row.slot_id

-----------------------------------------------------------------------------
(* The trigger generate_slots_from_availability                            *)

\* The WHILE loop on (current_start, slot_end).  Its control flow depends on
\* current_start alone and current_start moves by a fixed step modulo 24
\* hours, so the first value to come back is the one the loop began with:
\* from there the loop repeats itself and never ends.  acc is the sequence
\* of (current_start, slot_end) the loop hands to INSERT.
RECURSIVE GenerateLoop(_, _, _, _, _)
GenerateLoop(current_start, end_time, minutes, acc, first) ==
  IF ~(current_start < end_time)
  THEN [terminates |-> TRUE, slots |-> acc]
  ELSE LET slot_end == time_pl_interval(current_start, minutes) IN
       IF slot_end > end_time
       THEN [terminates |-> TRUE, slots |-> acc]
       ELSE IF acc # <<>> /\ current_start = first
       THEN [terminates |-> FALSE, slots |-> acc]
       ELSE GenerateLoop(slot_end, end_time, minutes,
                         Append(acc, <<current_start, slot_end>>), first)

\* slot_duration_minutes := COALESCE(NEW.slot_duration, 30); the loop.
generate_slots_from_availability(start_time, end_time, slot_duration) ==
  GenerateLoop(start_time, end_time, COALESCE(slot_duration, 30), <<>>,
               start_time)

\* A handler that would refresh the existing row (not the trigger's).
C10_Mutant_Upsert(rows, row) ==
  {s \in rows : SlotKey(s) # SlotKey(row)}
    \cup {[s EXCEPT !.status = "available",
                    !.availability_id = row.availability_id] :
            s \in {x \in rows : SlotKey(x) = SlotKey(row)}}

\* EXCEPTION WHEN unique_violation THEN NULL: the existing rows stay.
OnUniqueViolation(rows, row) == rows

\* INSERT INTO faculty_slots ... inside BEGIN .. EXCEPTION .. END.
InsertSlot(rows, row) ==
  IF faculty_slots_unique_violation(rows, row)
  THEN OnUniqueViolation(rows, row)
  ELSE rows \cup {row}

\* A loop that would leave at the first duplicate (not the trigger's).
RECURSIVE C11_Mutant_StopAtDuplicate(_, _, _, _, _, _, _)
C11_Mutant_StopAtDuplicate(cands, i, rows, nid, faculty_id, date, avail_id) ==
  IF i > Len(cands) THEN [rows |-> rows, nid |-> nid]
  ELSE LET row == [id |-> nid, faculty_id |-> faculty_id, date |-> date,
                   start_time |-> cands[i][1], end_time |-> cands[i][2],
                   availability_id |-> NotNull(avail_id),
                   status |-> "available"]
       IN IF faculty_slots_unique_violation(rows, row)
          THEN [rows |-> rows, nid |-> nid]
          ELSE C11_Mutant_StopAtDuplicate(cands, i + 1, rows \cup {row},
                                          nid + 1, faculty_id, date, avail_id)

\* The inserts of one run of the trigger, in loop order.  The result is the
\* table and the next unused id.
RECURSIVE InsertSlots(_, _, _, _, _, _, _)
InsertSlots(cands, i, rows, nid, faculty_id, date, avail_id) ==
  IF i > Len(cands) THEN [rows |-> rows, nid |-> nid]
  ELSE LET row == [id |-> nid, faculty_id |-> faculty_id, date |-> date,
                   start_time |-> cands[i][1], end_time |-> cands[i][2],
                   availability_id |-> NotNull(avail_id),
                   status |-> "available"]
           after == InsertSlot(rows, row)
       IN InsertSlots(cands, i + 1, after,
                      IF row \in after THEN nid + 1 ELSE nid,
                      faculty_id, date, avail_id)

-----------------------------------------------------------------------------
(* Availability: handleAddAvailability, and the store's part of the insert *)

NoOp ==
  [op |-> "none", faculty_id |-> "", date |-> 0, start_time |-> 0,
   end_time |-> 0, slot_duration |-> NULL, result |-> ""]

Window(faculty_id, date, start_time, end_time, slot_duration) ==
  [faculty_id |-> faculty_id, date |-> date, start_time |-> start_time,
   end_time |-> end_time, slot_duration |-> slot_duration]

WindowOf(r) ==
  Window(r.faculty_id, r.date, r.start_time, r.end_time, r.slot_duration)

\* What the store answers to INSERT INTO availability, trigger included:
\* "42501" (row-level security), "23505" (unique violation), "no_return"
\* (the trigger's loop never ends, the statement never commits) or "ok".
AvailabilityInsertResult(u, faculty_id, date, start_time, end_time, slot_duration) ==
  IF ~availability_insert_allowed(u, faculty_id) THEN "42501"
  ELSE IF availability_unique_violation(availability, faculty_id, date,
                                        start_time) THEN "23505"
  ELSE IF ~generate_slots_from_availability(start_time, end_time,
                                            slot_duration).terminates
       THEN "no_return"
  ELSE IF ~faculty_slots_write_allowed(u, faculty_id) THEN "42501"
  ELSE "ok"

\* A trigger whose inserts would outlive a rejected row (not the schema's).
C24_Mutant_FiresOnRejectedRow(result) == result \in {"ok", "23505"}

\* CREATE TRIGGER generate_slots_trigger AFTER INSERT ON availability FOR
\* EACH ROW: the function runs for a row the statement has inserted, and its
\* inserts are part of that statement.
TriggerFires(result) == result = "ok"

\* The value "" of an input that was left empty (date, startTime, endTime).
EmptyField == -1

\* if (!date || !startTime || !endTime)
FieldsPresent(date, start_time, end_time) ==
  date # EmptyField /\ start_time # EmptyField /\ end_time # EmptyField

\* Number(slotDuration) on the text of the number input: <<>> is the empty
\* text, whose number is 0.
Number(text) == IF text = <<>> THEN 0 ELSE text[1]

\* The form of the admin and faculty dashboards: faculty_id is the signed-in
\* user; the insert fires generate_slots_trigger in the same statement.
handleAddAvailability(u, date, start_time, end_time, slotDuration) ==
  /\ CanOpenAvailabilityForm(u)
  /\ nextAvailId <= MaxAvail
  /\ LET faculty_id == u
         slot_duration == NotNull(Number(slotDuration))
         result == IF ~FieldsPresent(date, start_time, end_time)
                   THEN "required"
                   ELSE AvailabilityInsertResult(u, faculty_id, date,
                                                 start_time, end_time,
                                                 slot_duration)
         g == generate_slots_from_availability(start_time, end_time,
                                               slot_duration)
         ins == InsertSlots(g.slots, 1, faculty_slots, nextSlotId,
                            faculty_id, date, nextAvailId)
         w == Window(faculty_id, date, start_time, end_time, slot_duration)
     IN /\ lastOp' = w @@ [op |-> "handleAddAvailability",
                           result |-> result]
        /\ IF result = "ok"
           THEN /\ availability' = availability \cup
                                     {w @@ [id |-> nextAvailId]}
                /\ nextAvailId' = nextAvailId + 1
                /\ submitted' =
                     IF w \in DOMAIN submitted
                     THEN [submitted EXCEPT ![w] = @ + 1]
                     ELSE submitted @@ (w :> 1)
           ELSE UNCHANGED <<availability, nextAvailId, submitted>>
        /\ IF TriggerFires(result)
           THEN faculty_slots' = ins.rows /\ nextSlotId' = ins.nid
           ELSE UNCHANGED <<faculty_slots, nextSlotId>>
  /\ UNCHANGED <<appointments, slot_requests, calls, sideVars>>

\* A reference declared ON DELETE CASCADE (not the schema's).
C26_Mutant_OnDeleteCascade(rows, a) ==
  {s \in rows : s.availability_id # NotNull(a.id)}

\* availability_id UUID REFERENCES public.availability(id) ON DELETE SET NULL
OnDeleteAvailability(rows, a) ==
  {IF s.availability_id = NotNull(a.id)
   THEN [s EXCEPT !.availability_id = NULL] ELSE s : s \in rows}

\* DELETE FROM availability: the slots stay and lose their back-reference.
DeleteAvailability(a) ==
  /\ a \in availability
  /\ availability' = availability \ {a}
  /\ faculty_slots' = OnDeleteAvailability(faculty_slots, a)
  /\ lastOp' = NoOp
  /\ UNCHANGED <<appointments, slot_requests, calls, nextAvailId, nextSlotId,
                 submitted, sideVars>>

\* The out-of-band transition available -> cancelled of a slot.
CancelSlot(sid) ==
  /\ Cardinality({s \in faculty_slots : s.status = "cancelled"}) < MaxCancel
  /\ \E s \in faculty_slots :
       /\ s.id = sid
       /\ s.status = "available"
       /\ faculty_slots' =
            (faculty_slots \ {s}) \cup {[s EXCEPT !.status = "cancelled"]}
  /\ lastOp' = NoOp
  /\ UNCHANGED <<availability, appointments, slot_requests, calls,
                 nextAvailId, nextSlotId, submitted, sideVars>>

-----------------------------------------------------------------------------
(* INSERT INTO availability as a transaction of its own                    *)

\* The statement of handleAddAvailability runs in one transaction: the row,
\* then the trigger's inserts one by one, then the commit.  Rows of a
\* transaction in progress are invisible to the others, except that an insert
\* with the key of such a row waits until that transaction ends.

ActiveTxs == {t \in DOMAIN txs : txs[t].state = "active"}

\* A behaviour without the wait (not the store's).
C12_Mutant_NoWait(t, row) == FALSE

\* The insert of row by t waits for an uncommitted row with the same key.
WaitsForSlot(t, row) ==
  \E t2 \in ActiveTxs \ {t} : faculty_slots_unique_violation(txs[t2].held, row)

\* The insert of the availability row waits in the same way.
WaitsForAvailability(faculty_id, date, start_time) ==
  \E t2 \in ActiveTxs :
    /\ txs[t2].faculty_id = faculty_id
    /\ txs[t2].date = date
    /\ txs[t2].start_time = start_time

\* The candidate the loop of t is about to insert.
NextRow(t) ==
  [id |-> nextSlotId, faculty_id |-> txs[t].faculty_id, date |-> txs[t].date,
   start_time |-> txs[t].cands[txs[t].i][1],
   end_time |-> txs[t].cands[txs[t].i][2],
   availability_id |-> NotNull(txs[t].avail_id), status |-> "available"]

txFrame == <<appointments, slot_requests, calls, lastOp, gen, now, listing>>

\* handleAddAvailability sends the insert; the store checks the row.
TxBegin(u, date, start_time, end_time, slotDuration) ==
  /\ CanOpenAvailabilityForm(u)
  /\ FieldsPresent(date, start_time, end_time)
  /\ Len(txs) < MaxTx
  /\ ~WaitsForAvailability(u, date, start_time)
  /\ LET slot_duration == NotNull(Number(slotDuration))
         w == Window(u, date, start_time, end_time, slot_duration)
         g == generate_slots_from_availability(start_time, end_time,
                                               slot_duration)
         code == IF ~availability_insert_allowed(u, u) THEN "42501"
                 ELSE IF availability_unique_violation(availability, u, date,
                                                       start_time)
                 THEN "23505"
                 ELSE "active"
     IN /\ txs' = Append(txs, w @@ [avail_id |-> nextAvailId,
                                    cands |-> g.slots,
                                    terminates |-> g.terminates,
                                    i |-> 1, held |-> {}, state |-> code])
        /\ nextAvailId' = IF code = "active" THEN nextAvailId + 1
                          ELSE nextAvailId
  /\ UNCHANGED <<availability, faculty_slots, nextSlotId, submitted>>
  /\ UNCHANGED txFrame

\* One round of the trigger's loop in transaction t.
TxInsertSlot(t) ==
  /\ t \in ActiveTxs
  /\ txs[t].i <= Len(txs[t].cands)
  /\ ~WaitsForSlot(t, NextRow(t))
  /\ LET row == NextRow(t)
         after == InsertSlot(faculty_slots \cup txs[t].held, row)
     IN /\ txs' = [txs EXCEPT ![t].held = after \ faculty_slots,
                              ![t].i = @ + 1]
        /\ nextSlotId' = IF row \in after THEN nextSlotId + 1 ELSE nextSlotId
  /\ UNCHANGED <<availability, faculty_slots, nextAvailId, submitted>>
  /\ UNCHANGED txFrame

\* The loop has ended: the statement commits and the insert returns.
TxCommit(t) ==
  /\ t \in ActiveTxs
  /\ txs[t].i > Len(txs[t].cands)
  /\ txs[t].terminates
  /\ txs' = [txs EXCEPT ![t].state = "ok", ![t].held = {}]
  /\ availability' = availability \cup
                       {WindowOf(txs[t]) @@ [id |-> txs[t].avail_id]}
  /\ faculty_slots' = faculty_slots \cup txs[t].held
  /\ submitted' = IF WindowOf(txs[t]) \in DOMAIN submitted
                  THEN [submitted EXCEPT ![WindowOf(txs[t])] = @ + 1]
                  ELSE submitted @@ (WindowOf(txs[t]) :> 1)
  /\ UNCHANGED <<nextAvailId, nextSlotId>>
  /\ UNCHANGED txFrame

-----------------------------------------------------------------------------
(* BookingPage: fetchSlot and handleBooking                                *)

\* The offset of each browser's time zone from UTC, in hours.
timezone ==
  [u \in Users |-> IF u = "sch1" THEN 6 ELSE IF u = "fac2" THEN -5 ELSE 0]

\* new Date(`${slot.date}T${time}`).toISOString(): the date and time are
\* read on the wall clock of the caller's browser; the result is the instant
\* in UTC, here in minutes since 00:00 UTC of day 0.
toISOString(date, time, u) == date * MinutesPerDay + time - timezone[u] * 60

\* A page is one (user, slot id) of the route /book/:slotId.
CallUser(k) == k[1]
CallSlot(k) == k[2]

SlotById(sid) == CHOOSE s \in faculty_slots : s.id = sid

NewCall ==
  [pc |-> "form", outcome |-> "none", requested |-> FALSE,
   conflict |-> FALSE, inserted |-> FALSE, update |-> "none",
   reminder |-> "none", attempts |-> 0, prior |-> "none", inserts |-> 0]

Finish(c, outcome) == [c EXCEPT !.pc = "done", !.outcome = outcome]

bookingFrame ==
  <<availability, nextAvailId, nextSlotId, submitted, sideVars>>

\* useEffect -> fetchSlot: the page keeps the slot only when the row exists
\* with status 'available'; otherwise it navigates away.
fetchSlot(u, sid) ==
  /\ CanOpenBookingPage(u)
  /\ <<u, sid>> \notin DOMAIN calls
  /\ Cardinality(DOMAIN calls) < MaxCalls
  /\ \E s \in faculty_slots : s.id = sid /\ s.status = "available"
  /\ calls' = calls @@ (<<u, sid>> :> NewCall)
  /\ lastOp' = NoOp
  /\ UNCHANGED <<faculty_slots, appointments, slot_requests>>
  /\ UNCHANGED bookingFrame

\* History: the status of the cancelled or completed appointment that
\* referenced the slot when handleBooking began, "none" when there was no
\* such appointment.
PriorAppointment(sid) ==
  LET held == {a \in appointments :
                 a.slot_id = NotNull(sid) /\ a.status # "confirmed"} IN
    IF held = {} THEN "none" ELSE (CHOOSE a \in held : TRUE).status

\* if (slotCheck?.status !== 'available')
SlotCheckPasses(status) == status = "available"

\* A handler that would show the toast and go on (not this one).
C19_Mutant_NoReturn(c, status) ==
  [c EXCEPT !.pc = "checked",
            !.outcome = IF SlotCheckPasses(status) THEN "none"
                        ELSE "unavailable"]

\* ... { toast({ title: 'Slot Unavailable', ... }); return; }
AfterSlotCheck(c, status) ==
  IF SlotCheckPasses(status)
  THEN [c EXCEPT !.pc = "checked"]
  ELSE Finish(c, "unavailable")

\* Step 1: select status ... maybeSingle(), then the test of the status.
CheckSlot(k) ==
  /\ k \in DOMAIN calls
  /\ calls[k].pc = "form"
  /\ calls' = [calls EXCEPT ![k] =
                 AfterSlotCheck([@ EXCEPT !.prior =
                                   PriorAppointment(CallSlot(k))],
                                SlotById(CallSlot(k)).status)]
  /\ lastOp' = NoOp
  /\ UNCHANGED <<faculty_slots, appointments, slot_requests>>
  /\ UNCHANGED bookingFrame

\* The select fails: its error is not read, slotCheck is null.
CheckSlotFails(k) ==
  /\ k \in DOMAIN calls
  /\ calls[k].pc = "form"
  /\ calls' = [calls EXCEPT ![k] =
                 Finish([@ EXCEPT !.prior = PriorAppointment(CallSlot(k))],
                        "unavailable")]
  /\ lastOp' = NoOp
  /\ UNCHANGED <<faculty_slots, appointments, slot_requests>>
  /\ UNCHANGED bookingFrame

\* await supabase.from('slot_requests').insert(...): the result is not read.
InsertSlotRequest(k) ==
  /\ k \in DOMAIN calls
  /\ calls[k].pc = "checked"
  /\ slot_requests' = slot_requests \cup {[call |-> k]}
  /\ calls' = [calls EXCEPT ![k] = [@ EXCEPT !.pc = "requested",
                                             !.requested = TRUE]]
  /\ lastOp' = NoOp
  /\ UNCHANGED <<faculty_slots, appointments>>
  /\ UNCHANGED bookingFrame

InsertSlotRequestFails(k) ==
  /\ k \in DOMAIN calls
  /\ calls[k].pc = "checked"
  /\ calls' = [calls EXCEPT ![k] = [@ EXCEPT !.pc = "requested"]]
  /\ lastOp' = NoOp
  /\ UNCHANGED <<faculty_slots, appointments, slot_requests>>
  /\ UNCHANGED bookingFrame

\* A row whose times would be the slot's digits taken as UTC (not this
\* handler's).
C25_Mutant_TimesAsUTC(k) ==
  LET slot == SlotById(CallSlot(k)) IN
  [id |-> k, faculty_id |-> slot.faculty_id, scholar_id |-> CallUser(k),
   slot_id |-> NotNull(slot.id), status |-> "confirmed",
   start_time |-> slot.date * MinutesPerDay + slot.start_time,
   end_time |-> slot.date * MinutesPerDay + slot.end_time]

\* The row of supabase.from('appointments').insert({...}).
AppointmentRow(k) ==
  LET slot == SlotById(CallSlot(k)) IN
  [id |-> k, faculty_id |-> slot.faculty_id, scholar_id |-> CallUser(k),
   slot_id |-> NotNull(slot.id), status |-> "confirmed",
   start_time |-> toISOString(slot.date, slot.start_time, CallUser(k)),
   end_time |-> toISOString(slot.date, slot.end_time, CallUser(k))]

\* History: one more insert into appointments was sent by the call.
Issued(c) == [c EXCEPT !.inserts = @ + 1]

\* A handler that would go on to the reminder after a conflict (not this
\* one).
C27_Mutant_RemindOnConflict(code) == "updated"

\* A handler that would send the insert again after a conflict (not this
\* one).
C23_Mutant_RetryOnConflict(code) == "requested"

\* A handler that would go on to the update after an error (not this one).
C4_Mutant_IgnoreInsertError(code) == "inserted"

\* if (insertError) { ... throw ... }: where the handler goes on an error.
AfterInsertError(code) == "done"

\* Step 2: the insert; 23505 is the unique index on slot_id.
InsertAppointment(k) ==
  /\ k \in DOMAIN calls
  /\ calls[k].pc = "requested"
  /\ LET row == AppointmentRow(k) IN
     IF ~appointments_insert_allowed(CallUser(k), row.scholar_id)
     THEN /\ calls' = [calls EXCEPT ![k] = Finish(Issued(@), "error")]
          /\ UNCHANGED appointments
     ELSE IF appointments_slot_id_unique_violation(appointments, row)
     THEN /\ calls' = [calls EXCEPT ![k] =
                 IF AfterInsertError("23505") = "done"
                 THEN [Finish(Issued(@), "conflict") EXCEPT !.conflict = TRUE]
                 ELSE [Issued(@) EXCEPT !.pc = AfterInsertError("23505"),
                                        !.conflict = TRUE]]
          /\ UNCHANGED appointments
     ELSE /\ appointments' = appointments \cup {row}
          /\ calls' = [calls EXCEPT ![k] =
                         [Issued(@) EXCEPT !.pc = "inserted",
                                           !.inserted = TRUE]]
  /\ lastOp' = NoOp
  /\ UNCHANGED <<faculty_slots, slot_requests>>
  /\ UNCHANGED bookingFrame

\* A handler that would not read the insert's error and go on (not this
\* one).
C28_Mutant_InsertErrorUnread(k) ==
  /\ k \in DOMAIN calls
  /\ calls[k].pc = "requested"
  /\ calls' = [calls EXCEPT ![k] = [Issued(@) EXCEPT !.pc = "inserted"]]
  /\ lastOp' = NoOp
  /\ UNCHANGED <<faculty_slots, appointments, slot_requests>>
  /\ UNCHANGED bookingFrame

\* The insert fails for another reason: throw insertError.
InsertAppointmentFails(k) ==
  /\ k \in DOMAIN calls
  /\ calls[k].pc = "requested"
  /\ calls' = [calls EXCEPT ![k] = Finish(Issued(@), "error")]
  /\ lastOp' = NoOp
  /\ UNCHANGED <<faculty_slots, appointments, slot_requests>>
  /\ UNCHANGED bookingFrame

\* Step 3: update({ status: 'booked' }).eq('id', slot.id).  Rows the caller's
\* policies do not cover are filtered out of the update without an error.
UpdateSlotStatus(k) ==
  /\ k \in DOMAIN calls
  /\ calls[k].pc = "inserted"
  /\ LET hit == {s \in faculty_slots :
                   /\ s.id = CallSlot(k)
                   /\ faculty_slots_write_allowed(CallUser(k), s.faculty_id)}
     IN /\ faculty_slots' = (faculty_slots \ hit) \cup
                              {[s EXCEPT !.status = "booked"] : s \in hit}
        /\ calls' = [calls EXCEPT ![k] =
                       [@ EXCEPT !.pc = "updated",
                                 !.update = IF hit = {} THEN "filtered"
                                            ELSE "applied"]]
  /\ lastOp' = NoOp
  /\ UNCHANGED <<appointments, slot_requests>>
  /\ UNCHANGED bookingFrame

\* if (updateError) throw updateError
UpdateSlotStatusFails(k) ==
  /\ k \in DOMAIN calls
  /\ calls[k].pc = "inserted"
  /\ calls' = [calls EXCEPT ![k] = [Finish(@, "error") EXCEPT
                                      !.update = "error"]]
  /\ lastOp' = NoOp
  /\ UNCHANGED <<faculty_slots, appointments, slot_requests>>
  /\ UNCHANGED bookingFrame

\* A handler that would let the reminder's error reach the outer catch (not
\* this one).
C18_Mutant_RethrowReminderError(c) == Finish(c, "error")

\* catch (emailErr) { console.warn(...) }, then setShowBookingPopup(true).
AfterReminderError(c) == Finish(c, "success")

\* Step 4 and setShowBookingPopup(true).  Building the body of the reminder
\* reads the undeclared name `reason`; the ReferenceError lands in the inner
\* catch, so the function is never invoked and the popup is shown.
ShowBookingPopup(k) ==
  /\ k \in DOMAIN calls
  /\ calls[k].pc = "updated"
  /\ calls' = [calls EXCEPT ![k] =
                 AfterReminderError([@ EXCEPT !.reminder = "failed",
                                              !.attempts = @ + 1])]
  /\ lastOp' = NoOp
  /\ UNCHANGED <<faculty_slots, appointments, slot_requests>>
  /\ UNCHANGED bookingFrame

\* "Users can update their own appointments".
appointments_update_allowed(u, a) == u = a.scholar_id \/ u = a.faculty_id

\* CHECK (status IN ('confirmed', 'cancelled', 'completed'))
AppointmentStatuses == {"confirmed", "cancelled", "completed"}

\* The out-of-band change of an appointment's status by one of its parties.
UpdateAppointmentStatus(u, a, status) ==
  /\ a \in appointments
  /\ appointments_update_allowed(u, a)
  /\ status \in AppointmentStatuses \ {a.status}
  /\ appointments' = (appointments \ {a}) \cup {[a EXCEPT !.status = status]}
  /\ lastOp' = NoOp
  /\ UNCHANGED <<faculty_slots, slot_requests, calls>>
  /\ UNCHANGED bookingFrame

-----------------------------------------------------------------------------
(* The dashboards: fetchAvailableSlots                                     *)

\* Time passes in steps of half a day; the model starts at 18:00 UTC of
\* day 1.
HoursPerDay == 24
FirstHour == 42
TickHours == 12

\* new Date().toISOString().split("T")[0]: the calendar date in UTC.
toISOStringDate(instant) == instant \div HoursPerDay

\* The calendar date on the caller's wall clock.
LocalDate(instant, u) == (instant + timezone[u]) \div HoursPerDay

Tick ==
  /\ now + TickHours <= FirstHour + MaxTicks * TickHours
  /\ now' = now + TickHours
  /\ UNCHANGED <<storeVars, calls, gen, txs, listing>>

\* "Users can view their own appointments", "Admins can view all
\* appointments".
appointments_select_allowed(u, a) ==
  u = a.scholar_id \/ u = a.faculty_id \/ has_role(u, "admin")

\* .select("id, date, start_time, end_time, status")
SlotColumns(s) ==
  [id |-> s.id, date |-> s.date, start_time |-> s.start_time,
   end_time |-> s.end_time, status |-> s.status]

\* .order("date", { ascending: true }).order("start_time", { ascending: true })
OrderedBefore(a, b) ==
  a.date < b.date \/ (a.date = b.date /\ a.start_time <= b.start_time)

\* The orders in which the store may return the rows: any order that
\* respects the two keys (rows equal on both come in either order).
OrderedResults(rows) ==
  {q \in [1..Cardinality(rows) -> rows] :
     /\ \A i, j \in DOMAIN q : i # j => q[i] # q[j]
     /\ \A i, j \in DOMAIN q : i < j => OrderedBefore(q[i], q[j])}

\* from("faculty_slots") ... .eq("status", "available").gte("date", today)
AvailableFrom(today) ==
  {SlotColumns(s) : s \in {x \in faculty_slots :
                             x.status = "available" /\ x.date >= today}}

\* (allSlots || []).filter((slot) => !bookedSlotIds.has(slot.id))
FilterOut(q, ids) == SelectSeq(q, LAMBDA s : s.id \notin ids)

ReferencedIds == {a.slot_id[1] : a \in {x \in appointments : ~IsNull(x.slot_id)}}

NoListing ==
  [caller |-> "", page |-> "", pc |-> "none", at |-> 0,
   allSlots |-> <<>>, availableSlots |-> <<>>, referenced |-> {}]

listFrame == <<storeVars, calls, gen, txs, now>>

\* ScholarDashboard.fetchAvailableSlots, first request: the slots.
fetchAvailableSlots(u) ==
  /\ has_role(u, "scholar")
  /\ listing.pc # "slots"
  /\ \E q \in OrderedResults(AvailableFrom(toISOStringDate(now))) :
       listing' = [NoListing EXCEPT !.caller = u, !.page = "ScholarDashboard",
                                    !.pc = "slots", !.at = now,
                                    !.allSlots = q]
  /\ UNCHANGED listFrame

\* Second request: the slot_id of the appointments the caller may read,
\* then the filter and setAvailableSlots.
setAvailableSlots(u) ==
  /\ listing.pc = "slots"
  /\ listing.caller = u
  /\ LET bookedSlotIds ==
           {a.slot_id[1] : a \in {x \in appointments :
                                    /\ appointments_select_allowed(u, x)
                                    /\ ~IsNull(x.slot_id)}}
     IN listing' = [listing EXCEPT
                      !.pc = "shown",
                      !.availableSlots = FilterOut(listing.allSlots,
                                                   bookedSlotIds),
                      !.referenced = ReferencedIds]
  /\ UNCHANGED listFrame

\* Index.fetchAvailableSlots: one request, no second one.
IndexFetchAvailableSlots(u) ==
  /\ has_role(u, "faculty")
  /\ listing.pc # "slots"
  /\ \E q \in OrderedResults(AvailableFrom(toISOStringDate(now))) :
       listing' = [NoListing EXCEPT !.caller = u, !.page = "Index",
                                    !.pc = "shown", !.at = now,
                                    !.allSlots = q, !.availableSlots = q,
                                    !.referenced = ReferencedIds]
  /\ UNCHANGED listFrame

-----------------------------------------------------------------------------
(* The system                                                              *)

NoGen == [start_time |-> 0, end_time |-> 0, slot_duration |-> NULL,
          state |-> "none", out |-> [terminates |-> TRUE, slots |-> <<>>]]

Init ==
  /\ availability = {}
  /\ faculty_slots = {}
  /\ appointments = {}
  /\ slot_requests = {}
  /\ calls = [k \in {} |-> NewCall]
  /\ nextAvailId = 1
  /\ nextSlotId = 1
  /\ submitted = [w \in {} |-> 0]
  /\ lastOp = NoOp
  /\ gen = NoGen
  /\ txs = <<>>
  /\ now = FirstHour
  /\ listing = NoListing

\* One run of the slot generator on a window, outside the store.
Generate ==
  /\ gen.state = "input"
  /\ gen' = [gen EXCEPT !.state = "done",
                        !.out = generate_slots_from_availability(
                                  gen.start_time, gen.end_time,
                                  gen.slot_duration)]
  /\ UNCHANGED <<storeVars, calls, txs, now, listing>>

\* Every half hour of the day, 10:15, 15:45 with 16:25, 22:15 with 22:40,
\* 23:20 and 23:45.
GenTimes ==
  {30 * h : h \in 0..47} \cup {615, 945, 985, 1335, 1360, 1400, 1425}

GenDurations ==
  {NULL} \cup {NotNull(m) : m \in {-30, 0, 30, 45, 60, 495, 600}}

InitGen ==
  /\ availability = {}
  /\ faculty_slots = {}
  /\ appointments = {}
  /\ slot_requests = {}
  /\ calls = [k \in {} |-> NewCall]
  /\ nextAvailId = 1
  /\ nextSlotId = 1
  /\ submitted = [w \in {} |-> 0]
  /\ lastOp = NoOp
  /\ txs = <<>>
  /\ now = FirstHour
  /\ listing = NoListing
  /\ gen \in {[NoGen EXCEPT !.start_time = s, !.end_time = e,
                            !.slot_duration = d, !.state = "input"] :
                s \in GenTimes, e \in GenTimes, d \in GenDurations}

SpecGen == InitGen /\ [][Generate]_vars

Dates == {1}

\* 09:00-10:00 by 60: one slot per owner.
BookingWindows == { <<540, 600, NotNull(60)>> }

\* 09:00-10:00 by 30, 09:30-10:30 by 30 (shares 09:30-10:00 with the first),
\* 15:45-16:25 by 495 (start + duration passes 24:00), 23:00-23:45 by 60 (the
\* loop does not end), 10:00-09:00 by 30 (start after end), a form without
\* start time, and 09:00-10:00 with the duration left empty.  The durations
\* are multiples of 15, as the form asks.
StoreWindows ==
  { <<540, 600, NotNull(30)>>, <<570, 630, NotNull(30)>>,
    <<945, 985, NotNull(495)>>, <<1380, 1425, NotNull(60)>>,
    <<600, 540, NotNull(30)>>, <<EmptyField, 600, NotNull(30)>>,
    <<540, 600, <<>>>> }

Owners == {"adm1", "fac1"}

\* Booking pages racing for the slots of two owners; a store request may
\* also fail for a reason outside the schema.
Next ==
  \/ \E u \in Owners, d \in Dates, w \in BookingWindows :
       handleAddAvailability(u, d, w[1], w[2], w[3])
  \/ \E a \in availability : DeleteAvailability(a)
  \/ \E s \in faculty_slots : CancelSlot(s.id)
  \/ \E u \in Users, s \in faculty_slots : fetchSlot(u, s.id)
  \/ \E k \in DOMAIN calls : CheckSlot(k)
  \/ \E k \in DOMAIN calls : InsertSlotRequest(k)
  \/ \E k \in DOMAIN calls : InsertAppointment(k)
  \/ \E k \in DOMAIN calls : UpdateSlotStatus(k)
  \/ \E k \in DOMAIN calls : ShowBookingPopup(k)
  \/ \E k \in DOMAIN calls : CheckSlotFails(k)
  \/ \E k \in DOMAIN calls : InsertSlotRequestFails(k)
  \/ \E k \in DOMAIN calls : InsertAppointmentFails(k)
  \/ \E k \in DOMAIN calls : UpdateSlotStatusFails(k)

Spec == Init /\ [][Next]_vars

\* The same, every store request answered by the schema alone.
NextNoFault ==
  \/ \E u \in Owners, d \in Dates, w \in BookingWindows :
       handleAddAvailability(u, d, w[1], w[2], w[3])
  \/ \E a \in availability : DeleteAvailability(a)
  \/ \E s \in faculty_slots : CancelSlot(s.id)
  \/ \E u \in Users, s \in faculty_slots : fetchSlot(u, s.id)
  \/ \E k \in DOMAIN calls : CheckSlot(k)
  \/ \E k \in DOMAIN calls : InsertSlotRequest(k)
  \/ \E k \in DOMAIN calls : InsertAppointment(k)
  \/ \E k \in DOMAIN calls : UpdateSlotStatus(k)
  \/ \E k \in DOMAIN calls : ShowBookingPopup(k)

SpecNoFault == Init /\ [][NextNoFault]_vars

\* Overlapping and repeated availability windows; one page books slot 1.
NextStore ==
  \/ \E u \in Owners, d \in Dates, w \in StoreWindows :
       handleAddAvailability(u, d, w[1], w[2], w[3])
  \/ \E a \in availability : DeleteAvailability(a)
  \/ \E s \in faculty_slots : CancelSlot(s.id)
  \/ fetchSlot("fac1", 1)
  \/ \E k \in DOMAIN calls : CheckSlot(k)
  \/ \E k \in DOMAIN calls : InsertSlotRequest(k)
  \/ \E k \in DOMAIN calls : InsertAppointment(k)
  \/ \E k \in DOMAIN calls : UpdateSlotStatus(k)
  \/ \E k \in DOMAIN calls : ShowBookingPopup(k)

SpecStore == Init /\ [][NextStore]_vars

\* 09:00-10:00, 09:30-10:30, 10:00-11:00 and 09:00-10:30 by 30: each shares
\* an interval with the one before, the last also the start time of the
\* first.
ConcWindows ==
  { <<540, 600, NotNull(30)>>, <<570, 630, NotNull(30)>>,
    <<600, 660, NotNull(30)>>, <<540, 630, NotNull(30)>> }

\* Availability inserts of one owner for one date, running concurrently.
NextConc ==
  \/ \E d \in Dates, w \in ConcWindows : TxBegin("fac1", d, w[1], w[2], w[3])
  \/ \E t \in DOMAIN txs : TxInsertSlot(t)
  \/ \E t \in DOMAIN txs : TxCommit(t)

SpecConc == Init /\ [][NextConc]_vars

\* Day 1 09:00-10:00 and day 2 08:00-09:00, by 60.
ListWindows == { <<1, 540, 600, NotNull(60)>>, <<2, 480, 540, NotNull(60)>> }

\* The dashboards listing slots while slots are created and booked and
\* time passes.
NextList ==
  \/ \E u \in Owners, w \in ListWindows :
       handleAddAvailability(u, w[1], w[2], w[3], w[4])
  \/ \E u \in Users, s \in faculty_slots : fetchSlot(u, s.id)
  \/ \E k \in DOMAIN calls : CheckSlot(k)
  \/ \E k \in DOMAIN calls : InsertSlotRequest(k)
  \/ \E k \in DOMAIN calls : InsertAppointment(k)
  \/ \E k \in DOMAIN calls : UpdateSlotStatus(k)
  \/ \E k \in DOMAIN calls : ShowBookingPopup(k)
  \/ Tick
  \/ \E u \in Users : fetchAvailableSlots(u)
  \/ \E u \in Users : setAvailableSlots(u)
  \/ \E u \in Users : IndexFetchAvailableSlots(u)

SpecList == Init /\ [][NextList]_vars

\* The slot of one owner over its life: booking pages of the owner and of a
\* colleague, store requests that may fail, and appointments whose status
\* their parties change.
NextLife ==
  \/ \E d \in Dates, w \in BookingWindows :
       handleAddAvailability("fac1", d, w[1], w[2], w[3])
  \/ \E u \in Users, s \in faculty_slots : fetchSlot(u, s.id)
  \/ \E k \in DOMAIN calls : CheckSlot(k)
  \/ \E k \in DOMAIN calls : InsertSlotRequest(k)
  \/ \E k \in DOMAIN calls : InsertAppointment(k)
  \/ \E k \in DOMAIN calls : UpdateSlotStatus(k)
  \/ \E k \in DOMAIN calls : ShowBookingPopup(k)
  \/ \E k \in DOMAIN calls : CheckSlotFails(k)
  \/ \E k \in DOMAIN calls : InsertSlotRequestFails(k)
  \/ \E k \in DOMAIN calls : InsertAppointmentFails(k)
  \/ \E k \in DOMAIN calls : UpdateSlotStatusFails(k)
  \/ \E u \in Users, a \in appointments, st \in AppointmentStatuses :
       UpdateAppointmentStatus(u, a, st)

SpecLife == Init /\ [][NextLife]_vars

\* 09:00-10:00 by 30, 09:15-10:15 by 30 (another start time) and 09:30-10:30
\* by 60 (another duration).
MixWindows ==
  { <<540, 600, NotNull(30)>>, <<555, 615, NotNull(30)>>,
    <<570, 630, NotNull(60)>> }

\* Submissions of windows that are not aligned with each other.
NextMix ==
  \/ \E u \in Owners, d \in Dates, w \in MixWindows :
       handleAddAvailability(u, d, w[1], w[2], w[3])
  \/ \E a \in availability : DeleteAvailability(a)
  \/ \E s \in faculty_slots : CancelSlot(s.id)

SpecMix == Init /\ [][NextMix]_vars

-----------------------------------------------------------------------------
(* Booking integrity                                                       *)

CallsOn(sid) == {k \in DOMAIN calls : CallSlot(k) = sid}

AppointmentsOf(sid) == {a \in appointments : a.slot_id = NotNull(sid)}

\* C1: of the booking calls against one slot, in every interleaving of their
\* store requests, at most one ends in success, and every other call that
\* has ended reports a conflict or that the slot is unavailable.
C1_AtMostOneSuccess ==
  \A s \in faculty_slots :
    LET won == {k \in CallsOn(s.id) : calls[k].outcome = "success"} IN
      /\ Cardinality(won) <= 1
      /\ \A k \in CallsOn(s.id) \ won :
           calls[k].pc = "done" =>
             calls[k].outcome \in {"conflict", "unavailable"}

\* Two calls raced past the pre-check of the same slot: one won, the other
\* was turned away by the insert.
C1_Witness ==
  \E k1, k2 \in DOMAIN calls :
    /\ CallSlot(k1) = CallSlot(k2)
    /\ calls[k1].outcome = "success"
    /\ calls[k2].outcome = "conflict"

\* C2: no two appointment rows hold the same non-null slot_id.
C2_UniqueSlotReference ==
  \A a, b \in appointments :
    (~IsNull(a.slot_id) /\ a.slot_id = b.slot_id) => a = b

\* An appointment holds the slot and a second insert for it was rejected.
C2_Witness ==
  \E k1, k2 \in DOMAIN calls :
    /\ k1 # k2
    /\ CallSlot(k1) = CallSlot(k2)
    /\ calls[k1].inserted
    /\ calls[k2].conflict
    /\ Cardinality(AppointmentsOf(CallSlot(k1))) = 1

\* C3: once a call has reported success, its slot is 'booked' and exactly
\* one appointment references it, whoever the requester is.
C3_SuccessMeansBooked ==
  \A k \in DOMAIN calls :
    calls[k].outcome = "success" =>
      /\ SlotById(CallSlot(k)).status = "booked"
      /\ Cardinality(AppointmentsOf(CallSlot(k))) = 1

\* C4: a call whose insert was rejected by the unique index ends as a
\* conflict, has added no appointment and has issued no slot update.
C4_ConflictLeavesNoTrace ==
  \A k \in DOMAIN calls :
    calls[k].conflict =>
      /\ calls[k].pc = "done"
      /\ calls[k].outcome = "conflict"
      /\ ~calls[k].inserted
      /\ calls[k].update = "none"
      /\ \A a \in appointments : a.id # k

\* A call lost the insert while the slot still read 'available'.
C4_Witness ==
  \E k \in DOMAIN calls :
    /\ calls[k].conflict
    /\ SlotById(CallSlot(k)).status = "available"
    /\ Cardinality(AppointmentsOf(CallSlot(k))) = 1

\* C5: no slot is 'available' while an appointment references it.
C5_InsertAndUpdateAtomic ==
  \A s \in faculty_slots :
    s.status = "available" => AppointmentsOf(s.id) = {}

-----------------------------------------------------------------------------
(* Slot generation                                                         *)

\* The slots of P1: floor(W / D) of them, the i-th from start + (i-1)*D to
\* start + i*D.
FloorSlots(start_time, end_time, minutes) ==
  [i \in 1..((end_time - start_time) \div minutes) |->
     <<start_time + (i - 1) * minutes, start_time + i * minutes>>]

\* C6: for a window of length W > 0 and a duration D > 0 the generator
\* ends and hands exactly the floor(W / D) contiguous slots of length D to
\* the store, the first starting at the window start.
C6_FloorOfWindow ==
  (/\ gen.state = "done"
   /\ gen.start_time < gen.end_time
   /\ ~IsNull(gen.slot_duration)
   /\ gen.slot_duration[1] > 0)
  => /\ gen.out.terminates
     /\ gen.out.slots =
          FloorSlots(gen.start_time, gen.end_time, gen.slot_duration[1])

SameInterval(s1, s2) ==
  /\ s1.faculty_id = s2.faculty_id
  /\ s1.date = s2.date
  /\ s1.start_time = s2.start_time
  /\ s1.end_time = s2.end_time

\* C7: no two slot rows share (owner, date, start time, end time).
C7_UniqueSlotInterval ==
  \A s1, s2 \in faculty_slots : SameInterval(s1, s2) => s1 = s2

\* The candidates of the last availability submission.
LastCandidates ==
  LET g == generate_slots_from_availability(lastOp.start_time,
                                            lastOp.end_time,
                                            lastOp.slot_duration)
  IN {g.slots[i] : i \in 1..Len(g.slots)}

\* The rows that were in the table when the last submission, which
\* committed, offered their interval again.
LastMetSlots ==
  {s \in faculty_slots :
     /\ lastOp.op = "handleAddAvailability"
     /\ lastOp.result = "ok"
     /\ s.faculty_id = lastOp.faculty_id
     /\ s.date = lastOp.date
     /\ <<s.start_time, s.end_time>> \in LastCandidates
     /\ s.availability_id # NotNull(nextAvailId - 1)}

\* A committed submission offered an interval the table already held.
C7_Witness == LastMetSlots # {}

\* C8: every stored slot has start time < end time and lies inside the
\* window of the availability it refers to.
C8_SlotInsideWindow ==
  \A s \in faculty_slots :
    /\ s.start_time < s.end_time
    /\ \A a \in availability :
         s.availability_id = NotNull(a.id) =>
           a.start_time <= s.start_time /\ s.end_time <= a.end_time

SlotsOn(rows, faculty_id, date) ==
  {s \in rows : s.faculty_id = faculty_id /\ s.date = date}

\* C9: submitting a window whose insert has committed before leaves the
\* slot rows of that owner and date as they were.
C9_ResubmitAddsNothing ==
  [][(/\ lastOp'.op = "handleAddAvailability"
      /\ WindowOf(lastOp') \in DOMAIN submitted)
     => SlotsOn(faculty_slots', lastOp'.faculty_id, lastOp'.date)
          = SlotsOn(faculty_slots, lastOp'.faculty_id, lastOp'.date)]_vars

\* The same window committed a second time, its trigger meeting the slots of
\* the first.
C9_Witness ==
  /\ lastOp.op = "handleAddAvailability"
  /\ lastOp.result = "ok"
  /\ WindowOf(lastOp) \in DOMAIN submitted
  /\ submitted[WindowOf(lastOp)] >= 2
  /\ LastMetSlots # {}

\* The rows of a table whose interval the submission op offers.
MetBy(rows, op) ==
  LET g == generate_slots_from_availability(op.start_time, op.end_time,
                                            op.slot_duration)
  IN {s \in rows :
        /\ s.faculty_id = op.faculty_id
        /\ s.date = op.date
        /\ <<s.start_time, s.end_time>>
             \in {g.slots[i] : i \in 1..Len(g.slots)}}

\* C10: a committed submission leaves every row whose interval it offers
\* again as it was (id, status, availability_id), and every appointment.
C10_ExistingSlotUntouched ==
  [][(/\ lastOp'.op = "handleAddAvailability"
      /\ lastOp'.result = "ok")
     => /\ MetBy(faculty_slots, lastOp') \subseteq faculty_slots'
        /\ appointments' = appointments]_vars

\* The submission met a booked slot that an appointment references.
C10_Witness ==
  \E s \in LastMetSlots :
    /\ s.status = "booked"
    /\ AppointmentsOf(s.id) # {}

-----------------------------------------------------------------------------
(* Overlapping submissions                                                 *)

\* The candidate intervals of the submission op.
CandidatesOf(op) ==
  LET g == generate_slots_from_availability(op.start_time, op.end_time,
                                            op.slot_duration)
  IN {g.slots[i] : i \in 1..Len(g.slots)}

IntervalsOn(rows, faculty_id, date) ==
  {<<s.start_time, s.end_time>> : s \in SlotsOn(rows, faculty_id, date)}

WaitCycle(t, t2) ==
  /\ t \in ActiveTxs /\ t2 \in ActiveTxs /\ t # t2
  /\ txs[t].i <= Len(txs[t].cands) /\ txs[t2].i <= Len(txs[t2].cands)
  /\ faculty_slots_unique_violation(txs[t2].held, NextRow(t))
  /\ faculty_slots_unique_violation(txs[t].held, NextRow(t2))

AllTxCandidates ==
  UNION {{txs[t].cands[i] : i \in 1..Len(txs[t].cands)} : t \in DOMAIN txs}

-----------------------------------------------------------------------------
(* Inputs of the generator and of the form                                 *)

\* C13: for a slot duration that is null or <= 0 the generator produces
\* what it produces for the same window with duration 30.
C13_DefaultDuration ==
  (/\ gen.state = "done"
   /\ (IsNull(gen.slot_duration) \/ gen.slot_duration[1] <= 0))
  => gen.out = generate_slots_from_availability(gen.start_time, gen.end_time,
                                                NotNull(30))

\* C14: a submission with a missing field or with start >= end is rejected
\* with an error and creates no availability row and no slot row.
C14_InvalidWindowRejected ==
  [][(/\ lastOp'.op = "handleAddAvailability"
      /\ \/ ~FieldsPresent(lastOp'.date, lastOp'.start_time, lastOp'.end_time)
         \/ lastOp'.start_time >= lastOp'.end_time)
     => /\ lastOp'.result \notin {"ok", "no_return"}
        /\ availability' = availability
        /\ faculty_slots' = faculty_slots]_vars

-----------------------------------------------------------------------------
(* The status of a slot                                                    *)

\* C15: the status of a slot changes only from 'available' to 'booked' or
\* from 'available' to 'cancelled'; 'booked' and 'cancelled' are final.
C15_StatusTerminal ==
  [][\A s \in faculty_slots : \A s2 \in faculty_slots' :
       (s2.id = s.id /\ s2.status # s.status)
         => /\ s.status = "available"
            /\ s2.status \in {"booked", "cancelled"}]_vars

-----------------------------------------------------------------------------
(* Listing the available slots                                             *)

\* C16: the slots a dashboard shows are sorted by date and then by start
\* time, all have status 'available', and none is dated before the day of
\* the caller at the time of the request.
C16_ListSortedAvailableCurrent ==
  listing.pc = "shown" =>
    LET q == listing.availableSlots IN
      /\ \A i, j \in DOMAIN q : i < j => OrderedBefore(q[i], q[j])
      /\ \A i \in DOMAIN q : q[i].status = "available"
      /\ \A i \in DOMAIN q : q[i].date >= LocalDate(listing.at, listing.caller)

\* C17: a slot that an appointment references is in no list ScholarDashboard
\* shows, whoever made the appointment.
C17_ReferencedSlotNotOffered ==
  (listing.pc = "shown" /\ listing.page = "ScholarDashboard") =>
    \A i \in DOMAIN listing.availableSlots :
      listing.availableSlots[i].id \notin listing.referenced

-----------------------------------------------------------------------------
(* The ends of a booking call                                              *)

\* C18: a call whose reminder failed has reported success, its appointment
\* is in the table, the slot it set to 'booked' is 'booked', and the reminder
\* was attempted once.
C18_ReminderFailureSwallowed ==
  \A k \in DOMAIN calls :
    calls[k].reminder = "failed" =>
      /\ calls[k].outcome = "success"
      /\ \E a \in appointments : a.id = k
      /\ (calls[k].update = "applied" =>
            SlotById(CallSlot(k)).status = "booked")
      /\ calls[k].attempts = 1

\* The reminder of a call failed after the call had booked its slot.
C18_Witness ==
  \E k \in DOMAIN calls :
    /\ calls[k].reminder = "failed"
    /\ calls[k].update = "applied"
    /\ calls[k].pc = "done"
    /\ SlotById(CallSlot(k)).status = "booked"

\* C19: a call that ended because its pre-check did not find the slot
\* 'available' has written nothing: no slot_requests row, no appointment, no
\* slot update, no reminder.
C19_UnavailableWritesNothing ==
  \A k \in DOMAIN calls :
    calls[k].outcome = "unavailable" =>
      /\ calls[k].pc = "done"
      /\ ~calls[k].requested
      /\ [call |-> k] \notin slot_requests
      /\ ~calls[k].inserted
      /\ ~calls[k].conflict
      /\ \A a \in appointments : a.id # k
      /\ calls[k].update = "none"
      /\ calls[k].reminder = "none"

\* A call was turned away by the pre-check of a slot that was no longer
\* 'available'.
C19_Witness ==
  \E k \in DOMAIN calls :
    /\ calls[k].outcome = "unavailable"
    /\ SlotById(CallSlot(k)).status # "available"

-----------------------------------------------------------------------------
(* Termination of the generator                                            *)

\* C20: the loop of the generator ends for every start time, end time and
\* slot duration.
C20_GeneratorTerminates ==
  gen.state = "done" => gen.out.terminates

-----------------------------------------------------------------------------
(* Windows that hold at most one slot                                      *)

\* C21: for a window with start < end the generator ends, hands no slot to
\* the store when the duration is larger than the window, and hands exactly
\* the slot (start, end) when the duration equals the window.
C21_SmallWindow ==
  LET minutes == COALESCE(gen.slot_duration, 30)
      length == gen.end_time - gen.start_time
  IN (gen.state = "done" /\ gen.start_time < gen.end_time) =>
       /\ minutes > length =>
            gen.out = [terminates |-> TRUE, slots |-> <<>>]
       /\ minutes = length =>
            gen.out = [terminates |-> TRUE,
                       slots |-> <<<<gen.start_time, gen.end_time>>>>]

-----------------------------------------------------------------------------
(* One booking per slot, ever                                              *)

\* C22: at most one booking call of a slot ever inserts an appointment and
\* at most one ever reports success; a call that began when a cancelled or
\* completed appointment referenced the slot inserts nothing and ends
\* without success.
C22_OneBookingEver ==
  /\ \A s \in faculty_slots :
       /\ Cardinality({k \in CallsOn(s.id) : calls[k].inserted}) <= 1
       /\ Cardinality({k \in CallsOn(s.id) :
                         calls[k].outcome = "success"}) <= 1
  /\ \A k \in DOMAIN calls :
       calls[k].prior # "none" =>
         /\ ~calls[k].inserted
         /\ calls[k].outcome # "success"
         /\ calls[k].pc \in {"checked", "requested", "done"}
         /\ \A a \in appointments : a.id # k

\* A call that began after the slot's appointment had been cancelled was
\* turned away by the insert.
C22_Witness ==
  \E k \in DOMAIN calls :
    /\ calls[k].prior = "cancelled"
    /\ calls[k].outcome = "conflict"
    /\ \E a \in AppointmentsOf(CallSlot(k)) : a.status = "cancelled"

\* C23: a booking call sends at most one insert into appointments; a call
\* whose insert met the unique index has ended with the message to pick
\* another slot, having sent that one insert and no update of the slot.
C23_NoAutomaticRetry ==
  \A k \in DOMAIN calls :
    /\ calls[k].inserts <= 1
    /\ calls[k].conflict =>
         /\ calls[k].inserts = 1
         /\ calls[k].pc = "done"
         /\ calls[k].outcome = "conflict"
         /\ calls[k].update = "none"
         /\ calls[k].reminder = "none"

\* A call lost the race for a slot and stayed ended while the winner went on
\* to its popup.
C23_Witness ==
  \E k, k2 \in DOMAIN calls :
    /\ CallSlot(k) = CallSlot(k2)
    /\ calls[k].conflict
    /\ calls[k].inserts = 1
    /\ calls[k2].outcome = "success"
    /\ calls[k2].inserts = 1

-----------------------------------------------------------------------------
(* Generation happens once, at creation                                    *)

\* The slot rows of a table that refer to the availability a.
GeneratedFrom(rows, a) == {s.id : s \in {x \in rows : x.availability_id = NotNull(a.id)}}

\* C24: a step adds slot rows only when it creates an availability row, and
\* then the rows it adds are the candidates of that row that were not
\* stored, all referring to it; a submission that is rejected adds neither;
\* and no step adds a slot that refers to an availability that existed.
C24_GeneratedOnceAtCreation ==
  [][LET created == availability' \ availability
         added == {s \in faculty_slots' : \A t \in faculty_slots : t.id # s.id}
     IN /\ Cardinality(created) <= 1
        /\ created = {} => added = {}
        /\ \A a \in created :
             /\ \A s \in added : /\ s.availability_id = NotNull(a.id)
                                 /\ s.faculty_id = a.faculty_id
                                 /\ s.date = a.date
             /\ {<<s.start_time, s.end_time>> : s \in added}
                  = CandidatesOf(a)
                      \ IntervalsOn(faculty_slots, a.faculty_id, a.date)
        /\ (lastOp'.op = "handleAddAvailability" /\ lastOp'.result # "ok")
             => created = {} /\ faculty_slots' = faculty_slots
        /\ \A a \in availability :
             GeneratedFrom(faculty_slots', a)
               \subseteq GeneratedFrom(faculty_slots, a)]_vars

\* A submission was rejected by the uniqueness of (owner, date, start time)
\* although it offered an interval the store does not hold, and the slots of
\* the row that holds the key are there.
C24_Witness ==
  /\ lastOp.op = "handleAddAvailability"
  /\ lastOp.result = "23505"
  /\ CandidatesOf(lastOp)
       \ IntervalsOn(faculty_slots, lastOp.faculty_id, lastOp.date) # {}
  /\ \E a \in availability :
       /\ a.faculty_id = lastOp.faculty_id
       /\ a.start_time = lastOp.start_time
       /\ GeneratedFrom(faculty_slots, a) # {}

-----------------------------------------------------------------------------
(* The appointment of a booking                                            *)

\* The date and the time of day an instant shows on the wall clock of u.
WallClock(instant, u) ==
  LET local == instant + timezone[u] * 60
  IN <<local \div MinutesPerDay, local % MinutesPerDay>>

-----------------------------------------------------------------------------
(* Slots outlive their availability                                        *)

\* C26: a step that deletes an availability keeps every slot row, with the
\* same id, owner, date, interval and status, only the back-reference of the
\* slots generated from it becoming null, and keeps every appointment.
C26_SlotsOutliveAvailability ==
  [][\A a \in availability \ availability' :
       /\ \A s \in faculty_slots :
            IF s.availability_id = NotNull(a.id)
            THEN [s EXCEPT !.availability_id = NULL] \in faculty_slots'
            ELSE s \in faculty_slots'
       /\ Cardinality(faculty_slots') = Cardinality(faculty_slots)
       /\ appointments' = appointments]_vars

\* The availability of a booked slot that an appointment references was
\* deleted.
C26_Witness ==
  \E s \in faculty_slots :
    /\ IsNull(s.availability_id)
    /\ s.status = "booked"
    /\ AppointmentsOf(s.id) # {}
    /\ \A a \in availability :
         ~(a.faculty_id = s.faculty_id /\ a.date = s.date
           /\ a.start_time <= s.start_time /\ s.end_time <= a.end_time)

-----------------------------------------------------------------------------
(* The reminder comes last                                                 *)

\* C27: a call reaches the dispatch of the reminder only after its own
\* insert of the appointment was accepted and its update of the slot
\* returned without an error; a call that ended with a conflict, with another
\* error or at the pre-check never reached it.
C27_ReminderOnlyAfterSuccess ==
  \A k \in DOMAIN calls :
    /\ (calls[k].attempts > 0 \/ calls[k].reminder # "none") =>
         /\ calls[k].inserted
         /\ \E a \in appointments : a.id = k
         /\ calls[k].update \in {"applied", "filtered"}
         /\ ~calls[k].conflict
         /\ calls[k].outcome = "success"
    /\ calls[k].outcome \in {"conflict", "error", "unavailable"} =>
         calls[k].attempts = 0 /\ calls[k].reminder = "none"

\* One call reached the reminder after booking its slot; another call ended
\* with a conflict or an error without reaching it.
C27_Witness ==
  \E k, k2 \in DOMAIN calls :
    /\ calls[k].attempts = 1
    /\ calls[k].update = "applied"
    /\ calls[k2].pc = "done"
    /\ calls[k2].outcome \in {"conflict", "error"}
    /\ calls[k2].attempts = 0

-----------------------------------------------------------------------------
(* Booked slots and their appointment                                      *)

\* C28: every slot with status 'booked' is referenced by exactly one
\* appointment, and every call that has sent the update to 'booked' had its
\* own insert of the appointment for that slot accepted.
C28_BookedHasOneAppointment ==
  /\ \A s \in faculty_slots :
       s.status = "booked" => Cardinality(AppointmentsOf(s.id)) = 1
  /\ \A k \in DOMAIN calls :
       calls[k].update # "none" =>
         /\ calls[k].inserted
         /\ \E a \in AppointmentsOf(CallSlot(k)) : a.id = k

\* A slot is 'booked' by the call whose appointment references it, after
\* another call on the same slot ended without an appointment.
C28_Witness ==
  \E s \in faculty_slots : \E k, k2 \in CallsOn(s.id) :
    /\ s.status = "booked"
    /\ calls[k].update = "applied"
    /\ AppointmentsOf(s.id) = {AppointmentRow(k)}
    /\ k2 # k
    /\ calls[k2].pc = "done"
    /\ ~calls[k2].inserted

-----------------------------------------------------------------------------
(* Slots of one owner on one date                                          *)

\* The intervals of s1 and s2 share more than an endpoint.
Overlap(s1, s2) ==
  s1.start_time < s2.end_time /\ s2.start_time < s1.end_time

\* C29: two distinct slots of the same owner on the same date never
\* overlap.
C29_SlotsDisjoint ==
  \A s1, s2 \in faculty_slots :
    (s1 # s2 /\ s1.faculty_id = s2.faculty_id /\ s1.date = s2.date)
      => ~Overlap(s1, s2)

-----------------------------------------------------------------------------
(* What a failed booking leaves behind                                     *)

\* C30: a call that has ended without success has left no row: none in
\* slot_requests and no appointment; every slot_requests row of a call that
\* has ended was written by a call whose appointment insert was accepted.
C30_FailedCallLeavesNoRecord ==
  /\ \A k \in DOMAIN calls :
       (calls[k].pc = "done" /\ calls[k].outcome # "success") =>
         /\ [call |-> k] \notin slot_requests
         /\ \A a \in appointments : a.id # k
  /\ \A r \in slot_requests :
       calls[r.call].pc = "done" => calls[r.call].inserted

=============================================================================
